---- MODULE Spec2Model ----
(***************************************************************************)
(* Model of city_explorer/maps.py: the place collection run of main(), the *)
(* paginated search of MapsData.get_places_table, the record identity of   *)
(* MapsData._create_place_record and the batched distance enrichment of    *)
(* MapsData._add_distances_from_center.                                    *)
(*                                                                         *)
(* Python strings that take part in the record id are sequences of one     *)
(* character strings, so that concatenation and replace() are computed.    *)
(* Python dicts are functions from key strings to values.                  *)
(* The googlemaps client is the environment: every call of it either       *)
(* raises or answers, and every call is appended to the history `log`.     *)
(* Its answers are well formed (a distance element per destination, the    *)
(* keys the code reads present). The run starts after main has read the    *)
(* trigger (lines 139-145) with non-empty lists; the default lists are not *)
(* explored.                                                               *)
(***************************************************************************)
EXTENDS Integers, Sequences, FiniteSets, TLC

(* ------------------------------ bounds --------------------------------- *)

\* The provider answers at most MaxCalls text searches in one run.
MaxCalls == 4

\* The number of results on the provider's full page.
MaxPageLen == 20

(* ------------------------- program constants --------------------------- *)

\* maps.py:122  _chunked_iterable(place_coordinates, 25)
ChunkSize == 25

\* maps.py:63  time.sleep(2)
SleepSeconds == 2

VARIABLES
    place_types,         \* main: place_types after defaulting (line 144)
    district_names,      \* main: district_names after defaulting (line 145)
    pair_i,              \* main: position of the for loop in itertools.product
    places_table,        \* main: places_table, the accumulator (line 149)
    response,            \* main: response (line 157), None before
    pc,                  \* the line the single thread of control is at
    places,              \* get_places_table: places, the last search response
    gp_places_table,     \* get_places_table / _add_distances_from_center: places_table
    location_coordinates,\* _add_distances_from_center: location_coordinates
    distances,           \* _add_distances_from_center: distances
    chunk_i,             \* _add_distances_from_center: chunks already taken from the generator
    log                  \* history: every provider call and every sleep, in order

vars == <<place_types, district_names, pair_i, places_table, response, pc,
          places, gp_places_table, location_coordinates, distances, chunk_i, log>>

\* Python's None (compares unequal to every dict and non-empty list here)
None == <<>>

\* maps.py:52: places(query=query) passes no page_token
NoPageToken == 0

(* ------------------------------ strings -------------------------------- *)

\* str.replace(ch, "") on a sequence of characters
Replace(s, ch) == SelectSeq(s, LAMBDA c : c # ch)

NEAR == <<" ", "n", "e", "a", "r", " ">>

Gym   == <<"G", "y", "m">>
GymA  == <<"G", "y", "m", "A">>
AuK   == <<"A", "u", ",", " ", "K">>
Au_K  == <<"A", "u", " ", "K">>
AAuK  == <<"A", "A", "u", ",", " ", "K">>

\* The trigger's place_types and district_names lists that are explored.
TypeLists     == { <<Gym>>, <<Gym, GymA>> }
DistrictLists == { <<AuK, Au_K>>, <<AuK, AAuK>> }

(* ------------------------------ helpers -------------------------------- *)

RECURSIVE Flatten(_)
Flatten(ss) == IF ss = <<>> THEN <<>> ELSE Head(ss) \o Flatten(Tail(ss))

Min(a, b) == IF a < b THEN a ELSE b

Abs(x) == IF x < 0 THEN -x ELSE x

\* (mutant) the second list is the outer loop
ProductSecondOuter(ts, ds) ==
    [k \in 1..(Len(ts) * Len(ds)) |->
        <<ts[((k - 1) % Len(ts)) + 1], ds[((k - 1) \div Len(ts)) + 1]>>]

\* itertools.product(place_types, district_names): first list outer, second inner
Product(ts, ds) ==
    [k \in 1..(Len(ts) * Len(ds)) |->
        <<ts[((k - 1) \div Len(ds)) + 1], ds[((k - 1) % Len(ds)) + 1]>>]

Pairs == Product(place_types, district_names)

place_type == Pairs[pair_i][1]
district_name == Pairs[pair_i][2]

\* line 51: f"{place_type} near {district_name}"
Query(pt, dn) == pt \o NEAR \o dn

\* hashlib.md5(...).hexdigest(); the digest is taken to be injective
md5(s) == <<"md5", s>>

(* ----------------------------- the provider ---------------------------- *)

\* The number of distinct places the provider knows.
NumPlaces == 7

Digits == <<"0", "1", "2", "3", "4", "5", "6", "7", "8", "9">>

\* One element of a search response's "results" (a dict of the provider).
\* Ratings are optional; "types" is a key the record does not keep.
Place(p) ==
    LET base == [place_id |-> <<"P", Digits[p + 1]>>,
                 name |-> "name",
                 formatted_address |-> "address",
                 types |-> "types",
                 geometry |-> [location |-> [lat |-> p % 4, lng |-> p % 3]]]
    IN  IF p % 2 = 1
        THEN base @@ [rating |-> p, user_ratings_total |-> 10 * p]
        ELSE base

\* The results of the c-th search answer of a run, n results long.
Page(c, n) == [i \in 1..n |-> Place((c + i) % NumPlaces)]

PageLens == {0, 1, MaxPageLen}

\* The answers gmaps.places may give to the c-th search call: any page
\* length, with a fresh continuation token or without one.
SearchAnswers(c) ==
    { [results |-> Page(c, n)] : n \in PageLens }
    \cup { [results |-> Page(c, n), next_page_token |-> c] : n \in PageLens }

\* The district centers the lookup may answer: no candidate, or one.
Center(dn) == [lat |-> Len(dn) % 4, lng |-> 1]

FindPlaceAnswers(dn) ==
    { [candidates |-> <<>>],
      [candidates |-> << [geometry |-> [location |-> Center(dn)]] >>] }

\* The walking distance element the provider answers for one destination.
Walk(origin, dest) ==
    [distance |-> [value |-> 100 * (Abs(origin[1] - dest[1]) + Abs(origin[2] - dest[2]))]]

\* ["rows"][0]["elements"]: one element per destination, in request order.
DistanceMatrixAnswer(origin, dests) ==
    [rows |-> << [elements |-> [i \in 1..Len(dests) |-> Walk(origin, dests[i])]] >>]

IsSearch(e) == e.op = "places"

SearchCalls == Len(SelectSeq(log, IsSearch))

(* --------------------------- pure functions ---------------------------- *)

\* maps.py:73-98
create_place_record(place, pt, dn) ==
    LET kept == {k \in DOMAIN place :
                    k \in {"place_id", "name", "formatted_address",
                           "rating", "user_ratings_total"}}
        place_id == place["place_id"]
        id_string == Replace(Replace(place_id \o pt \o dn, ","), " ")
    IN  [k \in kept \ {"place_id"} |-> place[k]]
        @@ ("id" :> md5(id_string))
        @@ ("gmaps_place_id" :> place_id)
        @@ ("location_lat" :> place["geometry"]["location"]["lat"])
        @@ ("location_lng" :> place["geometry"]["location"]["lng"])
        @@ ("query_place_type" :> pt)
        @@ ("query_district_name" :> dn)

\* (mutant) the generator lacks the test for the empty chunk once: an
\* empty iterable yields one empty chunk
chunked_iterable_empty_chunk(iterable, size) ==
    IF Len(iterable) = 0
    THEN << <<>> >>
    ELSE [k \in 1..((Len(iterable) + size - 1) \div size) |->
            SubSeq(iterable, (k - 1) * size + 1, Min(k * size, Len(iterable)))]

\* (mutant) the chunks are one element longer than asked for
RECURSIVE chunked_iterable_oversize(_, _)
chunked_iterable_oversize(iterable, size) ==
    IF Len(iterable) = 0
    THEN <<>>
    ELSE LET n == Min(size + 1, Len(iterable))
         IN  <<SubSeq(iterable, 1, n)>>
             \o chunked_iterable_oversize(SubSeq(iterable, n + 1, Len(iterable)), size)

\* maps.py:163-169: the chunks the generator yields, in order
RECURSIVE chunked_iterable(_, _)
chunked_iterable(iterable, size) ==
    IF Len(iterable) = 0
    THEN <<>>
    ELSE LET n == Min(size, Len(iterable))
         IN  <<SubSeq(iterable, 1, n)>>
             \o chunked_iterable(SubSeq(iterable, n + 1, Len(iterable)), size)

\* maps.py:172-179 (json.dumps is left out: the dict is the response)
assemble_response_json(insert) ==
    [state |-> <<>>,
     schema |-> [places |-> [primary_key |-> <<"id">>]],
     insert |-> insert,
     hasMore |-> FALSE]

\* maps.py:118-120
place_coordinates ==
    [i \in 1..Len(gp_places_table) |->
        <<gp_places_table[i]["location_lat"], gp_places_table[i]["location_lng"]>>]

(* ------------------------------- state --------------------------------- *)

Init ==
    /\ place_types \in TypeLists
    /\ district_names \in DistrictLists
    /\ pair_i = 1
    /\ places_table = <<>>
    /\ response = None
    /\ pc = "main"
    /\ places = None
    /\ gp_places_table = <<>>
    /\ location_coordinates = None
    /\ distances = <<>>
    /\ chunk_i = 0
    /\ log = <<>>

\* (mutant) the failing pair is skipped and the run goes on, as an
\* except clause around the call in main's loop would do
RaiseSkipsPair ==
    /\ pc' = "main"
    /\ pair_i' = pair_i + 1
    /\ UNCHANGED <<place_types, district_names, places_table, response,
                   places, gp_places_table, location_coordinates, distances,
                   chunk_i>>

\* An exception nobody catches: it leaves get_places_table and main
\* (there is no try statement in maps.py), and main returns no response.
Raise ==
    /\ pc' = "aborted"
    /\ UNCHANGED <<place_types, district_names, pair_i, places_table, response,
                   places, gp_places_table, location_coordinates, distances,
                   chunk_i>>

\* gmaps.places(query, page_token): the call is logged; it raises, or
\* its answer becomes `places` and control goes to the while test.
CallPlaces(token) ==
    LET req == [query |-> Query(place_type, district_name), page_token |-> token]
        c   == SearchCalls + 1
    IN  /\ SearchCalls < MaxCalls
        /\ \/ /\ log' = Append(log, [op |-> "places", req |-> req, ok |-> FALSE,
                                    resp |-> None])
              /\ Raise
           \/ \E answer \in SearchAnswers(c) :
                /\ log' = Append(log, [op |-> "places", req |-> req, ok |-> TRUE,
                                      resp |-> answer])
                /\ places' = answer
                /\ pc' = "while"
                /\ UNCHANGED <<place_types, district_names, pair_i, places_table,
                               response, gp_places_table, location_coordinates,
                               distances, chunk_i>>

(* ------------------------------- main ---------------------------------- *)

\* maps.py:150-153: the for loop takes the next pair and calls
\* get_places_table, whose locals start afresh.
MainNextPair ==
    /\ pc = "main"
    /\ pair_i <= Len(Pairs)
    /\ pc' = "search"
    /\ places' = None
    /\ gp_places_table' = <<>>
    /\ location_coordinates' = None
    /\ distances' = <<>>
    /\ chunk_i' = 0
    /\ UNCHANGED <<place_types, district_names, pair_i, places_table, response, log>>

\* maps.py:155-159: the loop is exhausted; the response is assembled.
MainRespond ==
    /\ pc = "main"
    /\ pair_i > Len(Pairs)
    /\ response' = assemble_response_json([places |-> places_table])
    /\ pc' = "done"
    /\ UNCHANGED <<place_types, district_names, pair_i, places_table, places,
                   gp_places_table, location_coordinates, distances, chunk_i, log>>

(* -------------------------- get_places_table --------------------------- *)

\* maps.py:51-54
FirstRequest ==
    /\ pc = "search"
    /\ CallPlaces(NoPageToken)

\* (mutant) the loop gives up once it holds a full page of records
LoopBodyCapped ==
    /\ pc = "while"
    /\ "next_page_token" \in DOMAIN places
    /\ gp_places_table' = gp_places_table \o
            [i \in 1..Len(places.results) |->
                create_place_record(places.results[i], place_type, district_name)]
    /\ pc' = IF Len(gp_places_table') >= MaxPageLen THEN "find_place" ELSE "sleep"
    /\ UNCHANGED <<place_types, district_names, pair_i, places_table, response,
                   places, location_coordinates, distances, chunk_i, log>>

\* maps.py:55-61: the while test is true; the page's results become records.
LoopBody ==
    /\ pc = "while"
    /\ "next_page_token" \in DOMAIN places
    /\ gp_places_table' = gp_places_table \o
            [i \in 1..Len(places.results) |->
                create_place_record(places.results[i], place_type, district_name)]
    /\ pc' = "sleep"
    /\ UNCHANGED <<place_types, district_names, pair_i, places_table, response,
                   places, location_coordinates, distances, chunk_i, log>>

\* (mutant) the next page is requested at once
SleepSkipped ==
    /\ pc = "sleep"
    /\ pc' = "next"
    /\ UNCHANGED <<place_types, district_names, pair_i, places_table, response,
                   places, gp_places_table, location_coordinates, distances,
                   chunk_i, log>>

\* maps.py:63
Sleep ==
    /\ pc = "sleep"
    /\ log' = Append(log, [op |-> "sleep", req |-> SleepSeconds, ok |-> TRUE,
                          resp |-> None])
    /\ pc' = "next"
    /\ UNCHANGED <<place_types, district_names, pair_i, places_table, response,
                   places, gp_places_table, location_coordinates, distances,
                   chunk_i>>

\* maps.py:64-66
NextRequest ==
    /\ pc = "next"
    /\ CallPlaces(places.next_page_token)

\* maps.py:55, 68: the while test is false; the enrichment is called.
LoopExit ==
    /\ pc = "while"
    /\ "next_page_token" \notin DOMAIN places
    /\ pc' = "find_place"
    /\ UNCHANGED <<place_types, district_names, pair_i, places_table, response,
                   places, gp_places_table, location_coordinates, distances,
                   chunk_i, log>>

(* --------------------- _add_distances_from_center ---------------------- *)

\* (mutant) a lookup without a candidate falls back to the origin (0, 0)
FindPlaceDefaultCenter ==
    /\ pc = "find_place"
    /\ LET req == [input |-> district_name, input_type |-> "textquery"]
       IN  \/ /\ log' = Append(log, [op |-> "find_place", req |-> req, ok |-> FALSE,
                                    resp |-> None])
              /\ Raise
           \/ \E location \in FindPlaceAnswers(district_name) :
                /\ log' = Append(log, [op |-> "find_place", req |-> req, ok |-> TRUE,
                                      resp |-> location])
                /\ location_coordinates' =
                      IF Len(location.candidates) = 0
                      THEN <<0, 0>>
                      ELSE <<location.candidates[1].geometry.location.lat,
                             location.candidates[1].geometry.location.lng>>
                /\ distances' = <<>>
                /\ chunk_i' = 0
                /\ pc' = "chunks"
                /\ UNCHANGED <<place_types, district_names, pair_i,
                               places_table, response, places, gp_places_table>>

\* maps.py:112-121: the lookup raises, or answers no candidate (so that
\* ["candidates"][0] raises IndexError), or answers the center.
FindPlace ==
    /\ pc = "find_place"
    /\ LET req == [input |-> district_name, input_type |-> "textquery"]
       IN  \/ /\ log' = Append(log, [op |-> "find_place", req |-> req, ok |-> FALSE,
                                    resp |-> None])
              /\ Raise
           \/ \E location \in FindPlaceAnswers(district_name) :
                /\ log' = Append(log, [op |-> "find_place", req |-> req, ok |-> TRUE,
                                      resp |-> location])
                /\ IF Len(location.candidates) = 0
                   THEN Raise
                   ELSE /\ location_coordinates' =
                              <<location.candidates[1].geometry.location.lat,
                                location.candidates[1].geometry.location.lng>>
                        /\ distances' = <<>>
                        /\ chunk_i' = 0
                        /\ pc' = "chunks"
                        /\ UNCHANGED <<place_types, district_names, pair_i,
                                       places_table, response, places,
                                       gp_places_table>>

\* maps.py:122-129: the generator yields the next chunk; one distance
\* request is made for it and its values are appended to distances.
DistanceChunk ==
    /\ pc = "chunks"
    /\ LET chunks == chunked_iterable(place_coordinates, ChunkSize)
       IN  /\ chunk_i < Len(chunks)
           /\ LET place_coordinates_chunk == chunks[chunk_i + 1]
                  req == [origins |-> location_coordinates,
                          destinations |-> place_coordinates_chunk,
                          mode |-> "walking"]
                  answer == DistanceMatrixAnswer(location_coordinates,
                                                 place_coordinates_chunk)
                  distances_from_center == answer.rows[1].elements
              IN  \/ /\ log' = Append(log, [op |-> "distance_matrix", req |-> req,
                                           ok |-> FALSE, resp |-> None])
                     /\ Raise
                  \/ /\ log' = Append(log, [op |-> "distance_matrix", req |-> req,
                                           ok |-> TRUE, resp |-> answer])
                     /\ distances' = distances \o
                            [i \in 1..Len(distances_from_center) |->
                                distances_from_center[i].distance.value]
                     /\ chunk_i' = chunk_i + 1
                     /\ UNCHANGED <<place_types, district_names, pair_i,
                                    places_table, response, pc, places,
                                    gp_places_table, location_coordinates>>

\* (mutant) the distances are written back from the last to the first
AssignDistancesReversed ==
    /\ pc = "chunks"
    /\ chunk_i >= Len(chunked_iterable(place_coordinates, ChunkSize))
    /\ gp_places_table' =
            [i \in 1..Len(gp_places_table) |->
                ("distance_from_center" :> distances[Len(distances) + 1 - i])
                    @@ gp_places_table[i]]
    /\ pc' = "return"
    /\ UNCHANGED <<place_types, district_names, pair_i, places_table, response,
                   places, location_coordinates, distances, chunk_i, log>>

\* maps.py:122, 131-134: the generator is exhausted; every record gets
\* its distance, by position.
AssignDistances ==
    /\ pc = "chunks"
    /\ chunk_i >= Len(chunked_iterable(place_coordinates, ChunkSize))
    /\ gp_places_table' =
            [i \in 1..Len(gp_places_table) |->
                ("distance_from_center" :> distances[i]) @@ gp_places_table[i]]
    /\ pc' = "return"
    /\ UNCHANGED <<place_types, district_names, pair_i, places_table, response,
                   places, location_coordinates, distances, chunk_i, log>>

\* maps.py:68-70, 151-153: the enriched table is returned and main
\* appends it to its accumulator.
ReturnTable ==
    /\ pc = "return"
    /\ places_table' = places_table \o gp_places_table
    /\ pair_i' = pair_i + 1
    /\ pc' = "main"
    /\ UNCHANGED <<place_types, district_names, response, places,
                   gp_places_table, location_coordinates, distances, chunk_i, log>>

Next ==
    \/ MainNextPair
    \/ MainRespond
    \/ FirstRequest
    \/ LoopBody
    \/ Sleep
    \/ NextRequest
    \/ LoopExit
    \/ FindPlace
    \/ DistanceChunk
    \/ AssignDistances
    \/ ReturnTable

Spec == Init /\ [][Next]_vars

(* ------------------------- reading the history ------------------------- *)

SetMax(S) == CHOOSE m \in S : \A x \in S : x <= m

IsFirstRequest(e) == e.op = "places" /\ e.req.page_token = NoPageToken

FirstRequests(l) == SelectSeq(l, IsFirstRequest)

\* The part of the history that belongs to the pair whose search was
\* started last: from its first (token-less) request on.
CurStart(l) ==
    LET S == {i \in 1..Len(l) : IsFirstRequest(l[i])}
    IN  IF S = {} THEN 0 ELSE SetMax(S)

Cur(l) == IF CurStart(l) = 0 THEN <<>> ELSE SubSeq(l, CurStart(l), Len(l))

IsAnswer(e) == e.op = "places" /\ e.ok

IsLookup(e) == e.op = "find_place"

IsDistance(e) == e.op = "distance_matrix"

\* The pages the provider answered in the current pair's search.
CurPages(l) == SelectSeq(Cur(l), IsAnswer)

\* The distance requests of the current pair's enrichment.
CurDistances(l) == SelectSeq(Cur(l), IsDistance)

HasToken(answer) == "next_page_token" \in DOMAIN answer

Last(l) == l[Len(l)]

WithoutDistance(r) == [k \in DOMAIN r \ {"distance_from_center"} |-> r[k]]

Destinations(reqs) == Flatten([i \in 1..Len(reqs) |-> reqs[i].req.destinations])

Returned(reqs) ==
    Flatten([i \in 1..Len(reqs) |->
        [j \in 1..Len(reqs[i].resp.rows[1].elements) |->
            reqs[i].resp.rows[1].elements[j].distance.value]])

InSearch == {"while", "sleep", "next"}

InEnrich == {"chunks", "return"}

(* ------------------------------- claims -------------------------------- *)

\* The records get_places_table would hold if every answered page of the
\* current pair's search had been turned into records, page by page.
AllPageRecords(l) ==
    LET pages == CurPages(l)
    IN  Flatten([k \in 1..Len(pages) |->
            [i \in 1..Len(pages[k].resp.results) |->
                create_place_record(pages[k].resp.results[i],
                                    place_type, district_name)]])

\* C1: when the search of a pair has followed the continuation tokens to a
\* page without one, the pair's records are the results of every answered
\* page, in page order and then in-page order (nothing but the distance is
\* added to them afterwards).
C1_EveryPageReturned ==
    pc = "return" =>
        [i \in 1..Len(gp_places_table) |-> WithoutDistance(gp_places_table[i])]
            = AllPageRecords(log)

\* A call that raised, or a lookup whose answer has no candidate.
Failed(e) ==
    \/ ~e.ok
    \/ e.op = "find_place" /\ Len(e.resp.candidates) = 0

\* C2: fail-fast. A provider call that raises, or a lookup without a
\* candidate, takes the run to "aborted" in the same step; an aborted run
\* takes no further step (no later pair, no retry), has no response, and
\* the failing call is the last entry of the history.

C2_FailFast ==
    [][ /\ (Len(log') > Len(log) /\ Failed(Last(log'))) => pc' = "aborted"
        /\ pc' = "aborted" => /\ response' = None
                              /\ Len(log') > 0
                              /\ Failed(Last(log'))
                              /\ places_table' = places_table
        /\ pc # "aborted"
      ]_vars

\* C2 witness: the second page request of the first of several pairs raised.
C2_Witness ==
    /\ pc = "aborted"
    /\ pair_i < Len(Pairs)
    /\ Len(log) > 0
    /\ Last(log).op = "places"
    /\ Last(log).req.page_token # NoPageToken
    /\ Len(gp_places_table) > 0

\* C3: the distance requests of one enrichment. Each has the district
\* center as its origin and between 1 and ChunkSize destinations, all but
\* the last one issued have exactly ChunkSize, and their destinations in
\* issue order are the records' coordinates in record order; when the
\* enrichment is through there were exactly ceil(n / ChunkSize) of them.
C3_Batches ==
    pc \in InEnrich =>
        LET reqs == CurDistances(log)
            n    == Len(gp_places_table)
            dest == Destinations(reqs)
        IN  /\ \A k \in 1..Len(reqs) :
                  /\ reqs[k].req.origins = location_coordinates
                  /\ Len(reqs[k].req.destinations) \in 1..ChunkSize
                  /\ k < Len(reqs) => Len(reqs[k].req.destinations) = ChunkSize
            /\ Len(dest) <= n
            /\ dest = SubSeq(place_coordinates, 1, Len(dest))
            /\ Len(reqs) = chunk_i
            /\ (Len(dest) < n /\ pc = "chunks") => Len(dest) = ChunkSize * Len(reqs)
            /\ pc = "return" => /\ dest = place_coordinates
                                /\ Len(reqs) = (n + ChunkSize - 1) \div ChunkSize

\* C3 witness: an enrichment of 3 full pages of records is through, with
\* two full requests and a shorter last one.
C3_Witness ==
    /\ pc = "return"
    /\ Len(gp_places_table) = 3 * MaxPageLen
    /\ Len(CurDistances(log)) = 3
    /\ Len(CurDistances(log)[3].req.destinations) < ChunkSize

\* C4: the step that writes the distances keeps the length and order of
\* the records and every other field, and gives record i the value the
\* provider returned for the destination that was record i's coordinate.
C4_DistancesAligned ==
    [][ (pc = "chunks" /\ pc' = "return") =>
          LET reqs == CurDistances(log)
              dest == Destinations(reqs)
              vals == Returned(reqs)
          IN  /\ Len(gp_places_table') = Len(gp_places_table)
              /\ Len(dest) = Len(gp_places_table)
              /\ Len(vals) = Len(gp_places_table)
              /\ \A i \in 1..Len(gp_places_table) :
                    /\ WithoutDistance(gp_places_table'[i]) = gp_places_table[i]
                    /\ dest[i] = <<gp_places_table[i]["location_lat"],
                                   gp_places_table[i]["location_lng"]>>
                    /\ gp_places_table'[i]["distance_from_center"] = vals[i]
      ]_vars

\* C4 witness: more than one batch of records was enriched and the
\* records did not all get the same distance.
C4_Witness ==
    /\ pc = "return"
    /\ Len(gp_places_table) > ChunkSize
    /\ \E i, j \in 1..Len(gp_places_table) :
          gp_places_table[i]["distance_from_center"]
              # gp_places_table[j]["distance_from_center"]

\* Every record created so far in the run.
AllRecords ==
    places_table \o (IF pc \in InSearch \cup {"find_place"} \cup InEnrich
                     THEN gp_places_table ELSE <<>>)

\* C5: two records of the same external place whose category or district
\* differ have different ids.
C5_DistinctIds ==
    \A i, j \in 1..Len(AllRecords) :
        LET r == AllRecords[i]
            t == AllRecords[j]
        IN  (/\ r["gmaps_place_id"] = t["gmaps_place_id"]
             /\ \/ r["query_place_type"] # t["query_place_type"]
                \/ r["query_district_name"] # t["query_district_name"])
            => r["id"] # t["id"]

\* The current pair's search got one answer: no results, no token.
EmptyFirstPage(l) ==
    /\ Len(CurPages(l)) = 1
    /\ Cur(l)[1].ok
    /\ Len(Cur(l)[1].resp.results) = 0
    /\ ~HasToken(Cur(l)[1].resp)

\* C6 as stated: a pair whose first answer has no results and no token
\* never ends in an error.
C6_EmptyNeverFails ==
    (Len(log) > 0 /\ EmptyFirstPage(log)) => pc # "aborted"

\* C6 as amended: such a pair has no records and makes no distance
\* request; its district center is still looked up, and only that lookup
\* can end the run; when the lookup answers a candidate the pair returns
\* the empty list, main's accumulator is unchanged by it and the run goes
\* on to the next pair.
C6_EmptyPair ==
    [][ (Len(log') > 0 /\ EmptyFirstPage(log')) =>
          /\ pc' \in {"while", "find_place", "chunks", "return", "main", "search",
                      "done", "aborted"}
          /\ pc' \in {"while", "find_place", "chunks", "return"}
                => gp_places_table' = <<>>
          /\ CurDistances(log') = <<>>
          /\ pc' = "aborted" => IsLookup(Last(log')) /\ Failed(Last(log'))
          /\ (pc = "find_place" /\ ~Failed(Last(log'))) => pc' = "chunks"
          /\ pc = "chunks" => pc' = "return"
          /\ pc = "return" => /\ pc' = "main"
                              /\ pair_i' = pair_i + 1
                              /\ places_table' = places_table
      ]_vars

\* C6 witness: the first pair had an empty first page, returned, and the
\* search of the second pair has been started.
C6_Witness ==
    /\ pc = "search"
    /\ pair_i = 2
    /\ EmptyFirstPage(log)
    /\ places_table = <<>>

\* C7: a request with a continuation token comes right after a pause,
\* which comes right after the answer that issued that token; a request
\* without a token does not come right after a pause.
C7_PauseBeforeToken ==
    \A i \in 1..Len(log) :
        log[i].op = "places" =>
            IF log[i].req.page_token # NoPageToken
            THEN /\ i >= 3
                 /\ log[i - 1].op = "sleep"
                 /\ log[i - 1].req = SleepSeconds
                 /\ IsAnswer(log[i - 2])
                 /\ HasToken(log[i - 2].resp)
                 /\ log[i - 2].resp.next_page_token = log[i].req.page_token
            ELSE i = 1 \/ log[i - 1].op # "sleep"

\* C7 witness: two requests with a token were made in one search.
C7_Witness ==
    /\ Len(CurPages(log)) = 3
    /\ pc = "while"

\* The searches and the enrichments do not interleave: after a lookup or a
\* distance request, the next search request is the first of a new pair.
Sequential(l) ==
    \A i \in 1..Len(l) : \A j \in (i + 1)..Len(l) :
        (l[i].op \in {"find_place", "distance_matrix"} /\ l[j].op \in {"places", "sleep"})
            => \E m \in (i + 1)..j : IsFirstRequest(l[m])

\* C8: the pairs are taken one after the other, categories outer and
\* districts inner; only the return of a pair changes main's accumulator,
\* by appending that pair's enriched list; a pair's search is over before
\* its enrichment starts; and the response of a run that ends holds the
\* accumulator as insert.places, with hasMore false, after exactly one
\* search per pair, in pair order.
C8_PairOrder ==
    [][ /\ IF pc = "return"
           THEN /\ places_table' = places_table \o gp_places_table
                /\ pair_i' = pair_i + 1
                /\ \A i \in 1..Len(gp_places_table) :
                      "distance_from_center" \in DOMAIN gp_places_table[i]
           ELSE /\ places_table' = places_table
                /\ pair_i' = pair_i
        /\ Sequential(log')
        /\ LET firsts == FirstRequests(log')
           IN  /\ Len(firsts) <= Len(place_types) * Len(district_names)
               /\ \A k \in 1..Len(firsts) :
                     firsts[k].req.query =
                        Query(place_types[((k - 1) \div Len(district_names)) + 1],
                              district_names[((k - 1) % Len(district_names)) + 1])
               /\ pc' \in InSearch \cup {"find_place"} \cup InEnrich
                     => Len(firsts) = pair_i'
               /\ pc' \in {"main", "search", "done"} => Len(firsts) = pair_i' - 1
        /\ pc' = "done" =>
              /\ pair_i' = Len(place_types) * Len(district_names) + 1
              /\ response'.insert.places = places_table'
              /\ response'.hasMore = FALSE
              /\ response'.state = <<>>
              /\ response'.schema = [places |-> [primary_key |-> <<"id">>]]
      ]_vars

\* C8 witness: a run over several pairs ended with records of two
\* districts in its response.
C8_Witness ==
    /\ pc = "done"
    /\ \E i, j \in 1..Len(response.insert.places) :
          response.insert.places[i]["query_district_name"]
              # response.insert.places[j]["query_district_name"]

\* C9: the search loop is left only by an answer without a continuation
\* token or by a failing request; as long as the answers carry a token it
\* goes round (records, pause, next request), however many pages there
\* were, so a search whose answers all carry a token never gets to the
\* enrichment.
C9_LoopExit ==
    [][ /\ (pc \in InSearch /\ pc' \notin InSearch) =>
              \/ pc' = "aborted" /\ pc = "next" /\ ~Last(log').ok
              \/ pc = "while" /\ ~HasToken(places) /\ pc' = "find_place"
        /\ (pc = "while" /\ HasToken(places)) => pc' = "sleep"
        /\ (pc = "while" /\ ~HasToken(places)) => pc' = "find_place"
        /\ pc = "sleep" => pc' = "next"
        /\ pc = "next" => pc' \in {"while", "aborted"}
        /\ pc' \in {"find_place"} \cup InEnrich =>
              ~HasToken(Last(CurPages(log')).resp)
      ]_vars

\* C9 witness: every search answer the provider gave in the run carried a
\* token, and the loop is at its test again.
C9_Witness ==
    /\ pc = "while"
    /\ HasToken(places)
    /\ Len(CurPages(log)) = MaxCalls

\* A lookup that was answered, without a candidate.
NoCandidate(e) == e.op = "find_place" /\ e.ok /\ Len(e.resp.candidates) = 0

\* C10: an enrichment makes one lookup, before its distance requests; a
\* lookup without a candidate ends the run, with no distance request made
\* and no record of the pair given a distance.

C10_Lookup ==
    LET cur == Cur(log)
        lookups == {i \in 1..Len(cur) : IsLookup(cur[i])}
    IN  /\ Cardinality(lookups) <= 1
        /\ \A i \in 1..Len(cur) :
              IsDistance(cur[i]) =>
                  \E j \in lookups : j < i /\ cur[j].ok /\ ~NoCandidate(cur[j])
        /\ pc \in InEnrich => Cardinality(lookups) = 1
        /\ \A i \in lookups :
              /\ cur[i].req.input = Pairs[Len(FirstRequests(log))][2]
              /\ NoCandidate(cur[i]) =>
                    /\ pc = "aborted"
                    /\ i = Len(cur)
                    /\ \A k \in 1..Len(gp_places_table) :
                          "distance_from_center" \notin DOMAIN gp_places_table[k]

\* C10 witness: the lookup for a pair with records answered no candidate.
C10_Witness ==
    /\ pc = "aborted"
    /\ Len(log) > 0
    /\ NoCandidate(Last(log))
    /\ Len(gp_places_table) > 0

====
